---------------------------- MODULE Spec2Model ----------------------------
(***************************************************************************)
(* CARTX API (src/main.py): a FastAPI service with create/list handlers    *)
(* over two document collections ("product", "order"), a seed handler, a   *)
(* schema reflection handler and a diagnostic handler.                     *)
(*                                                                         *)
(* Python values are modelled as tagged records so that the dynamic type   *)
(* of a value (str, ObjectId, NoneType, ...) is visible to the properties. *)
(***************************************************************************)
EXTENDS Integers, Sequences, FiniteSets, TLC

VARIABLES
    product,    \* the store's "product" collection, in store-native order
    order,      \* the store's "order" collection, in store-native order
    db,         \* database.db, the module-level store handle (None or a handle)
    req,        \* the request handled last (sequential handlers)
    resp,       \* the response to it
    before,     \* history: the two collections as that request found them
    pc,         \* per concurrent handler: its position inside seed_products
    loc         \* per concurrent handler: its locals (existing, ids) and response

vars == <<product, order, db, req, resp, before, pc, loc>>

----------------------------------------------------------------------------
(* Bounds of the model *)

MaxProducts == 5
MaxOrders == 2
MaxOrdersLarge == 52
NumHandlers == 2

(* Program constants *)

DefaultLimit == 50

----------------------------------------------------------------------------
(* Python values *)

PyNone == [type |-> "NoneType"]
S(s) == [type |-> "str", val |-> s]
F(cents) == [type |-> "float", val |-> cents]
I(n) == [type |-> "int", val |-> n]
B(b) == [type |-> "bool", val |-> b]
ObjectId(n) == [type |-> "ObjectId", val |-> n]

EmptyDict == << >>

Min(a, b) == IF a <= b THEN a ELSE b

Take(s, n) == SubSeq(s, 1, Min(Len(s), n))

RECURSIVE Filter(_, _)
Filter(s, filter) ==
    IF s = << >> THEN << >>
    ELSE LET d == Head(s)
             keep == \A k \in DOMAIN filter : k \in DOMAIN d /\ d[k] = filter[k]
         IN (IF keep THEN <<d>> ELSE << >>) \o Filter(Tail(s), filter)

\* str(x) as main.py applies it to identifiers: the text of an ObjectId, and
\* "None" for None (p.get("_id") of a document without the key).
str(x) ==
    CASE x.type = "ObjectId" -> S(ToString(x.val))
      [] x.type = "NoneType" -> S("None")
      [] x.type = "str" -> x

\* dict.get(key): the value, or None when the key is absent.
Get(d, k) == IF k \in DOMAIN d THEN d[k] ELSE PyNone

\* d[k] = v on a dict.
SetItem(d, k, v) == [x \in DOMAIN d \cup {k} |-> IF x = k THEN v ELSE d[x]]

\* Python truthiness of the values the handlers test.
Truthy(v) ==
    CASE v.type = "NoneType" -> FALSE
      [] v.type = "str" -> v.val # ""
      [] v.type = "list" -> v.val # << >>

----------------------------------------------------------------------------
(* The store collaborator (database.py): insert and list *)

\* A store call either returns a value or raises.
Returned(v) == [raised |-> FALSE, value |-> v]
Raised(msg) == [raised |-> TRUE, exc |-> msg]

NoFault == "ok"
StoreDown == "store unavailable"
NotAvailable == "Database not available"

\* What a store call made now can do: without a store handle it always
\* raises; with one it succeeds or the store rejects the operation.
Faults == IF db = PyNone THEN {NotAvailable} ELSE {NoFault, StoreDown}

\* get_documents(collection, filter, limit): the documents matching the
\* exact-match filter, in store order, capped at limit when one is given.
get_documents(coll, filter, limit) ==
    LET hits == Filter(coll, filter)
    IN IF limit = PyNone THEN hits ELSE Take(hits, limit.val)

\* The identifier the store assigns to the next document of a collection.
NextId(coll) == ObjectId(Len(coll) + 1)

\* create_document(collection, data): the collection with the document
\* appended under a fresh identifier, and that identifier as a string.
create_document(coll, data) ==
    LET oid == NextId(coll)
    IN [coll |-> Append(coll, SetItem(data, "_id", oid)), id |-> str(oid)]


----------------------------------------------------------------------------
(* The schemas (schemas.py) and the validation FastAPI applies to a body *)

\* Product, as main.py constructs it and the data model declares it.
Product ==
    [name |-> <<"P", "r", "o", "d", "u", "c", "t">>,
     fields |-> << [name |-> "title", type |-> "str", required |-> TRUE],
                   [name |-> "description", type |-> "str", required |-> TRUE],
                   [name |-> "price", type |-> "float", required |-> TRUE],
                   [name |-> "category", type |-> "str", required |-> TRUE],
                   [name |-> "image", type |-> "str", required |-> TRUE],
                   [name |-> "in_stock", type |-> "bool", required |-> FALSE,
                    default |-> B(TRUE)] >>]

\* Order: declared in schemas.py; its fields are not modelled. A raw order
\* body carries whether it satisfies the declaration.
Order == [name |-> <<"O", "r", "d", "e", "r">>, fields |-> << >>]

FieldNames(schema) == { schema.fields[i].name : i \in 1..Len(schema.fields) }

\* The errors of a raw body against a schema: a required field missing, or a
\* present field of the wrong type. (No body drawn below holds a value that
\* coercion would convert to the declared type.)
Errors(schema, raw) ==
    { [field |-> f.name, reason |-> "missing"] :
        f \in { schema.fields[i] : i \in { j \in 1..Len(schema.fields) :
                    schema.fields[j].required
                    /\ schema.fields[j].name \notin DOMAIN raw } } }
    \cup
    { [field |-> f.name, reason |-> "type-mismatch"] :
        f \in { schema.fields[i] : i \in { j \in 1..Len(schema.fields) :
                    schema.fields[j].name \in DOMAIN raw
                    /\ raw[schema.fields[j].name].type # schema.fields[j].type } } }

\* The validated document: every declared field, from the body or from its
\* default; fields the schema does not declare are dropped.
Coerce(schema, raw) ==
    [n \in FieldNames(schema) |->
        IF n \in DOMAIN raw THEN raw[n]
        ELSE (CHOOSE f \in { schema.fields[i] : i \in 1..Len(schema.fields) } :
                 f.name = n).default]

validate(schema, raw) ==
    IF Errors(schema, raw) = {}
    THEN [ok |-> TRUE, doc |-> Coerce(schema, raw)]
    ELSE [ok |-> FALSE, errors |-> Errors(schema, raw)]

validate_order(raw) ==
    IF raw.complete
    THEN [ok |-> TRUE, doc |-> raw.body]
    ELSE [ok |-> FALSE, errors |-> {[field |-> "?", reason |-> "missing"]}]

----------------------------------------------------------------------------
(* Responses *)

Ok(body) == [status |-> 200, body |-> body]

\* raise HTTPException(status_code=500, detail=str(e))
HTTP500(msg) == [status |-> 500, body |-> [detail |-> S(msg)]]

\* FastAPI's answer to a body that fails validation: the handler is not run.
HTTP422(errors) == [status |-> 422, body |-> [detail |-> errors]]

\* An exception no handler catches.
InternalServerError == [status |-> 500, body |-> S("Internal Server Error")]

\* d["_id"] = str(d.get("_id")) for every document of a result list.
StrIds(docs) ==
    [i \in 1..Len(docs) |-> SetItem(docs[i], "_id", str(Get(docs[i], "_id")))]

----------------------------------------------------------------------------
(* The handlers of main.py, as functions of the collection they touch, their
   inputs and what the store does to each call they make *)

read_root == Ok([message |-> S("CARTX backend is running")])

\* list_products with the limit=1 of the seed lookup passed to the store.
list_products_first_only(coll, category, fault) ==
    LET query == IF Truthy(category) THEN [category |-> category] ELSE EmptyDict
    IN IF fault # NoFault THEN HTTP500(fault)
       ELSE Ok([items |-> StrIds(get_documents(coll, query, I(1)))])

\* list_products testing "category is not None" instead of its truth value.
list_products_is_not_none(coll, category, fault) ==
    LET query == IF category # PyNone THEN [category |-> category] ELSE EmptyDict
    IN IF fault # NoFault THEN HTTP500(fault)
       ELSE Ok([items |-> StrIds(get_documents(coll, query, PyNone))])

\* GET /api/products
list_products(coll, category, fault) ==
    LET query == IF Truthy(category) THEN [category |-> category] ELSE EmptyDict
    IN IF fault # NoFault THEN HTTP500(fault)
       ELSE Ok([items |-> StrIds(get_documents(coll, query, PyNone))])

\* create_product answering with the payload's own _id instead of the one
\* the store returned.
create_product_payload_id(coll, payload, fault) ==
    IF fault # NoFault THEN [coll |-> coll, resp |-> HTTP500(fault)]
    ELSE LET r == create_document(coll, payload)
         IN [coll |-> r.coll, resp |-> Ok("_id" :> str(Get(payload, "_id")))]

\* The body of create_product: one insert.
create_product(coll, payload, fault) ==
    IF fault # NoFault THEN [coll |-> coll, resp |-> HTTP500(fault)]
    ELSE LET r == create_document(coll, payload)
         IN [coll |-> r.coll, resp |-> Ok("_id" :> r.id)]

\* POST /api/products taking the body as an untyped dict.
post_products_unvalidated(coll, raw, fault) == create_product(coll, raw, fault)

\* POST /api/products: the body is validated against Product before
\* create_product runs.
post_products(coll, raw, fault) ==
    LET v == validate(Product, raw)
    IN IF v.ok THEN create_product(coll, v.doc, fault)
       ELSE [coll |-> coll, resp |-> HTTP422(v.errors)]

Sample(title, description, cents, category, image) ==
    [title |-> S(title), description |-> S(description), price |-> F(cents),
     category |-> S(category), image |-> S(image), in_stock |-> B(TRUE)]

samples ==
    << Sample("Orion Headphones",
              "High-fidelity wireless headphones with noise cancellation.",
              12999, "Audio", "photo-1518443895470-87f48ac871ec"),
       Sample("Nova Smartwatch",
              "AMOLED display, 7-day battery, fitness tracking.",
              19900, "Wearables", "photo-1511707171634-5f897ff02aa9"),
       Sample("Flux Portable Speaker",
              "Compact speaker with powerful bass and orange accent ring.",
              8950, "Audio", "photo-1519677100203-a0e668c92439"),
       Sample("Pulse Mechanical Keyboard",
              "Hot-swappable switches, RGB, USB-C.",
              14900, "Peripherals", "photo-1517336714731-489689fd1ca8") >>

\* for s in samples: ids.append(create_document("product", s)), the first n
\* iterations.
RECURSIVE InsertSamples(_, _)
InsertSamples(coll, n) ==
    IF n = 0 THEN [coll |-> coll, ids |-> << >>]
    ELSE LET done == InsertSamples(coll, n - 1)
             r == create_document(done.coll, samples[n])
         IN [coll |-> r.coll, ids |-> Append(done.ids, r.id)]

\* seed_products without the lookup of existing products.
seed_products_unchecked(coll, readFault, nOk) ==
    LET r == InsertSamples(coll, nOk)
    IN IF nOk < Len(samples)
       THEN [coll |-> r.coll, resp |-> HTTP500(StoreDown)]
       ELSE [coll |-> r.coll,
             resp |-> Ok([status |-> "seeded", count |-> Len(r.ids), ids |-> r.ids])]

\* seed_products replacing what the collection holds by the samples.
seed_products_reset(coll, readFault, nOk) ==
    IF readFault # NoFault THEN [coll |-> coll, resp |-> HTTP500(readFault)]
    ELSE LET r == InsertSamples(<< >>, Len(samples))
         IN [coll |-> r.coll,
             resp |-> Ok([status |-> "seeded", count |-> Len(r.ids), ids |-> r.ids])]

\* POST /api/seed, run to completion. readFault is what the store does to the
\* get_documents call; nOk is the number of inserts the store accepts before
\* it rejects one (Len(samples): it rejects none).
seed_products(coll, readFault, nOk) ==
    IF readFault # NoFault THEN [coll |-> coll, resp |-> HTTP500(readFault)]
    ELSE LET existing == get_documents(coll, EmptyDict, I(1))
         IN IF existing # << >>
            THEN [coll |-> coll, resp |-> Ok([status |-> "already-seeded"])]
            ELSE LET r == InsertSamples(coll, nOk)
                 IN IF nOk < Len(samples)
                    THEN [coll |-> r.coll, resp |-> HTTP500(StoreDown)]
                    ELSE [coll |-> r.coll,
                          resp |-> Ok([status |-> "seeded",
                                       count |-> Len(r.ids),
                                       ids |-> r.ids])]

\* The body of create_order: one insert.
create_order(coll, payload, fault) ==
    IF fault # NoFault THEN [coll |-> coll, resp |-> HTTP500(fault)]
    ELSE LET r == create_document(coll, payload)
         IN [coll |-> r.coll,
             resp |-> Ok(("_id" :> r.id) @@ [status |-> "received"])]

\* POST /api/orders: the body is validated against Order before create_order
\* runs.
post_orders(coll, raw, fault) ==
    LET v == validate_order(raw)
    IN IF v.ok THEN create_order(coll, v.doc, fault)
       ELSE [coll |-> coll, resp |-> HTTP422(v.errors)]

\* list_orders with no default for limit.
list_orders_no_default(coll, limit, fault) ==
    IF fault # NoFault THEN HTTP500(fault)
    ELSE Ok([items |-> StrIds(get_documents(coll, EmptyDict, limit))])

\* GET /api/orders; limit is the query parameter, None when it is not given.
list_orders(coll, limit, fault) ==
    LET lim == IF limit = PyNone THEN I(DefaultLimit) ELSE limit
    IN IF fault # NoFault THEN HTTP500(fault)
       ELSE Ok([items |-> StrIds(get_documents(coll, EmptyDict, lim))])

----------------------------------------------------------------------------
(* GET /schema *)

UpperCase ==
    <<"A", "B", "C", "D", "E", "F", "G", "H", "I", "J", "K", "L", "M",
      "N", "O", "P", "Q", "R", "S", "T", "U", "V", "W", "X", "Y", "Z">>

LowerCase ==
    <<"a", "b", "c", "d", "e", "f", "g", "h", "i", "j", "k", "l", "m",
      "n", "o", "p", "q", "r", "s", "t", "u", "v", "w", "x", "y", "z">>

LowerChar(c) ==
    IF \E i \in 1..Len(UpperCase) : UpperCase[i] = c
    THEN LowerCase[CHOOSE i \in 1..Len(UpperCase) : UpperCase[i] = c]
    ELSE c

\* str.lower()
Lower(s) == [i \in 1..Len(s) |-> LowerChar(s[i])]

\* The attributes of the objects model_cls.model_fields holds for a declared
\* field (pydantic's FieldInfo; is_required() is modelled as an attribute).
\* model_fields and is_required() are the pydantic 2 interface, whose
\* FieldInfo has no attribute field_info.
FieldInfo(f) ==
    [annotation |-> f.type,
     is_required |-> f.required,
     default |-> IF f.required THEN PyNone ELSE f.default,
     description |-> PyNone]

\* obj.name: the attribute, or AttributeError.
GetAttr(obj, name) ==
    IF name \in DOMAIN obj THEN Returned(obj[name]) ELSE Raised("AttributeError")

\* getattr(field.field_info, "description", None): field.field_info is
\* evaluated first, and the default covers only the outer lookup.
Description(field) ==
    LET inner == GetAttr(field, "field_info")
    IN IF inner.raised THEN inner
       ELSE Returned(Get(inner.value, "description"))

model_to_dict(model_cls) ==
    LET n == Len(model_cls.fields)
        info == [i \in 1..n |-> FieldInfo(model_cls.fields[i])]
        descr == [i \in 1..n |-> Description(info[i])]
    IN IF \E i \in 1..n : descr[i].raised
       THEN Raised("AttributeError")
       ELSE Returned(
              [name |-> model_cls.name,
               collection |-> Lower(model_cls.name),
               fields |-> [i \in 1..n |->
                             [name |-> model_cls.fields[i].name,
                              type |-> S(info[i].annotation),
                              required |-> info[i].is_required,
                              default |-> IF info[i].is_required THEN PyNone
                                          ELSE info[i].default,
                              description |-> descr[i].value]]])

\* The BaseModel subclasses of the schemas module, in getmembers' name order.
SchemaModels == <<Order, Product>>

\* get_schema has no try/except: an exception leaves it unhandled.
get_schema ==
    LET ds == [i \in 1..Len(SchemaModels) |-> model_to_dict(SchemaModels[i])]
    IN IF \E i \in 1..Len(SchemaModels) : ds[i].raised
       THEN InternalServerError
       ELSE Ok([models |-> [i \in 1..Len(SchemaModels) |-> ds[i].value]])

----------------------------------------------------------------------------
(* GET /test *)

\* The store handle database.py creates when it is configured.
DbHandle == [type |-> "Database", name |-> "cartx"]

\* An interpolated string: its literal prefix and the interpolated text.
FStr(prefix, text) == [type |-> "str", prefix |-> prefix, val |-> text]

\* test_database without its try/except blocks.
test_database_uncaught(dbh, envv, names) ==
    IF dbh # PyNone /\ names.raised THEN InternalServerError
    ELSE Ok([backend |-> S("Running"),
             database |-> IF dbh # PyNone THEN S("Connected & Working")
                          ELSE S("Available but not initialized"),
             database_url |-> IF Truthy(envv.DATABASE_URL) THEN S("Set")
                              ELSE S("Not Set"),
             database_name |-> IF Truthy(envv.DATABASE_NAME) THEN S("Set")
                               ELSE S("Not Set"),
             connection_status |-> IF dbh # PyNone THEN S("Connected")
                                   ELSE S("Not Connected"),
             collections |-> IF dbh # PyNone THEN Take(names.value, 10)
                             ELSE << >>])

\* names is what db.list_collection_names() does when it is called: it
\* returns the collection names or raises; envv is the environment. The
\* literal texts are written without the symbol that leads them in the source.
test_database(dbh, envv, names) ==
    LET r0 == [backend |-> S("Running"),
               database |-> S("Not Available"),
               database_url |-> PyNone,
               database_name |-> PyNone,
               connection_status |-> S("Not Connected"),
               collections |-> << >>]
        r1 == IF dbh # PyNone
              THEN LET a == [r0 EXCEPT
                               !.database = S("Available"),
                               !.database_url = S("Configured"),
                               !.database_name =
                                   IF "name" \in DOMAIN dbh THEN S(dbh.name)
                                   ELSE S("Connected"),
                               !.connection_status = S("Connected")]
                   IN IF names.raised
                      THEN [a EXCEPT !.database =
                              FStr("Connected but Error: ", Take(names.exc, 50))]
                      ELSE [a EXCEPT !.collections = Take(names.value, 10),
                                     !.database = S("Connected & Working")]
              ELSE [r0 EXCEPT !.database = S("Available but not initialized")]
        r2 == [r1 EXCEPT
                 !.database_url = IF Truthy(envv.DATABASE_URL) THEN S("Set")
                                  ELSE S("Not Set"),
                 !.database_name = IF Truthy(envv.DATABASE_NAME) THEN S("Set")
                                   ELSE S("Not Set")]
    IN Ok(r2)

----------------------------------------------------------------------------
(* Inputs *)

Restrict(d, keys) == [k \in keys |-> d[k]]

Body(category) ==
    [title |-> S("Test"), description |-> S("d"), price |-> F(999),
     category |-> S(category), image |-> S("http://x"), in_stock |-> B(TRUE)]

\* Request bodies of POST /api/products: valid ones (one relying on the
\* default of in_stock, one with an undeclared field) and invalid ones (a
\* required field missing, a field of the wrong type).
ProductBodies ==
    { Body("Audio"),
      Body(""),
      Restrict(Body("Audio"), DOMAIN Body("Audio") \ {"in_stock"}),
      SetItem(Body("Audio"), "sku", S("x1")),
      Restrict(Body("Audio"), DOMAIN Body("Audio") \ {"category"}),
      [Body("Audio") EXCEPT !.price = S("abc")] }

\* Request bodies of POST /api/orders.
OrderBodies ==
    { [complete |-> TRUE, body |-> [payload |-> S("order")]],
      [complete |-> FALSE, body |-> [payload |-> S("incomplete")]] }

\* The category query parameter: absent, empty, or a category.
Categories == {PyNone, S(""), S("Audio"), S("Wearables")}

\* The limit query parameter: absent, or a number.
Limits == {PyNone, I(0), I(1), I(DefaultLimit + 1)}

ShortMessage == <<"d", "o", "w", "n">>
LongMessage == [i \in 1..60 |-> "x"]

\* What db.list_collection_names() can do: name the collections that hold
\* documents, or raise.
CollectionNames ==
    (IF product # << >> THEN <<"product">> ELSE << >>)
    \o (IF order # << >> THEN <<"order">> ELSE << >>)

ListNamesOutcomes ==
    {Returned(CollectionNames), Raised(ShortMessage), Raised(LongMessage)}

\* What os.getenv returns for a variable: None (unset), "" or a value.
EnvSettings == {PyNone, S(""), S("set")}

\* The environment of the process, as test_database reads it.
Environments == [DATABASE_URL : EnvSettings, DATABASE_NAME : EnvSettings]

NoRequest == [op |-> "none"]
NoResponse == [status |-> 0, body |-> PyNone]

\* The collections as a request finds them.
Snapshot == [product |-> product, order |-> order]

Handlers == 1..NumHandlers
IdleLocals == [ids |-> << >>, resp |-> NoResponse]

----------------------------------------------------------------------------
(* Requests handled one after another *)

Init ==
    /\ product = << >>
    /\ order = << >>
    /\ db \in {PyNone, DbHandle}
    /\ req = NoRequest
    /\ resp = NoResponse
    /\ before = Snapshot
    /\ pc = [h \in Handlers |-> "idle"]
    /\ loc = [h \in Handlers |-> IdleLocals]

ReadRoot ==
    /\ req' = [op |-> "read_root"]
    /\ resp' = read_root
    /\ before' = Snapshot
    /\ UNCHANGED <<product, order, db, pc, loc>>

ListProducts ==
    \E category \in Categories, fault \in Faults :
        /\ req' = [op |-> "list_products", category |-> category]
        /\ resp' = list_products(product, category, fault)
        /\ before' = Snapshot
        /\ UNCHANGED <<product, order, db, pc, loc>>

CreateProduct ==
    /\ Len(product) < MaxProducts
    /\ \E raw \in ProductBodies, fault \in Faults :
        LET r == post_products(product, raw, fault)
        IN /\ req' = [op |-> "create_product", body |-> raw]
           /\ product' = r.coll
           /\ resp' = r.resp
           /\ before' = Snapshot
           /\ UNCHANGED <<order, db, pc, loc>>

SeedProducts ==
    \E readFault \in Faults, nOk \in 0..Len(samples) :
        LET r == seed_products(product, readFault, nOk)
        IN /\ req' = [op |-> "seed_products"]
           /\ product' = r.coll
           /\ resp' = r.resp
           /\ before' = Snapshot
           /\ UNCHANGED <<order, db, pc, loc>>

CreateOrderUpTo(max) ==
    /\ Len(order) < max
    /\ \E raw \in OrderBodies, fault \in Faults :
        LET r == post_orders(order, raw, fault)
        IN /\ req' = [op |-> "create_order", body |-> raw]
           /\ order' = r.coll
           /\ resp' = r.resp
           /\ before' = Snapshot
           /\ UNCHANGED <<product, db, pc, loc>>

CreateOrder == CreateOrderUpTo(MaxOrders)

ListOrders ==
    \E limit \in Limits, fault \in Faults :
        /\ req' = [op |-> "list_orders", limit |-> limit]
        /\ resp' = list_orders(order, limit, fault)
        /\ before' = Snapshot
        /\ UNCHANGED <<product, order, db, pc, loc>>

GetSchema ==
    /\ req' = [op |-> "get_schema"]
    /\ resp' = get_schema
    /\ before' = Snapshot
    /\ UNCHANGED <<product, order, db, pc, loc>>

TestDatabase ==
    \E names \in ListNamesOutcomes, envv \in Environments :
        /\ req' = [op |-> "test_database", names |-> names, env |-> envv]
        /\ resp' = test_database(db, envv, names)
        /\ before' = Snapshot
        /\ UNCHANGED <<product, order, db, pc, loc>>

Next ==
    \/ ReadRoot
    \/ ListProducts
    \/ CreateProduct
    \/ SeedProducts
    \/ CreateOrder
    \/ ListOrders
    \/ GetSchema
    \/ TestDatabase

Spec == Init /\ [][Next]_vars

----------------------------------------------------------------------------
(* The order collection grown past the default limit *)

InitOrders ==
    /\ product = << >>
    /\ order = << >>
    /\ db = DbHandle
    /\ req = NoRequest
    /\ resp = NoResponse
    /\ before = Snapshot
    /\ pc = [h \in Handlers |-> "idle"]
    /\ loc = [h \in Handlers |-> IdleLocals]

CreateOrderLarge == CreateOrderUpTo(MaxOrdersLarge)

NextOrders ==
    \/ CreateOrderLarge
    \/ ListOrders

SpecOrders == InitOrders /\ [][NextOrders]_vars

----------------------------------------------------------------------------
(* POST /api/seed handled by concurrent request handlers: every store call
   is one atomic step, and the steps of different handlers interleave *)

InitConc == InitOrders

\* existing = get_documents("product", {}, limit=1); if existing: return
SeedRead(h) ==
    /\ pc[h] = "idle"
    /\ \E fault \in Faults :
        IF fault # NoFault
        THEN /\ pc' = [pc EXCEPT ![h] = "done"]
             /\ loc' = [loc EXCEPT ![h].resp = HTTP500(fault)]
        ELSE LET existing == get_documents(product, EmptyDict, I(1))
             IN IF existing # << >>
                THEN /\ pc' = [pc EXCEPT ![h] = "done"]
                     /\ loc' = [loc EXCEPT
                                  ![h].resp = Ok([status |-> "already-seeded"])]
                ELSE /\ pc' = [pc EXCEPT ![h] = "insert"]
                     /\ loc' = [loc EXCEPT ![h].ids = << >>]
    /\ UNCHANGED <<product, order, db, req, resp, before>>

\* ids.append(create_document("product", s)), one iteration of the loop
SeedInsert(h) ==
    /\ pc[h] = "insert"
    /\ Len(loc[h].ids) < Len(samples)
    /\ \E fault \in Faults :
        IF fault # NoFault
        THEN /\ pc' = [pc EXCEPT ![h] = "done"]
             /\ loc' = [loc EXCEPT ![h].resp = HTTP500(fault)]
             /\ UNCHANGED product
        ELSE LET r == create_document(product, samples[Len(loc[h].ids) + 1])
             IN /\ product' = r.coll
                /\ loc' = [loc EXCEPT ![h].ids = Append(@, r.id)]
                /\ UNCHANGED pc
    /\ UNCHANGED <<order, db, req, resp, before>>

\* return {"status": "seeded", "count": len(ids), "ids": ids}
SeedReturn(h) ==
    /\ pc[h] = "insert"
    /\ Len(loc[h].ids) = Len(samples)
    /\ pc' = [pc EXCEPT ![h] = "done"]
    /\ loc' = [loc EXCEPT ![h].resp = Ok([status |-> "seeded",
                                          count |-> Len(loc[h].ids),
                                          ids |-> loc[h].ids])]
    /\ UNCHANGED <<product, order, db, req, resp, before>>

\* The response is sent; the handler takes the next request.
SeedDone(h) ==
    /\ pc[h] = "done"
    /\ pc' = [pc EXCEPT ![h] = "idle"]
    /\ loc' = [loc EXCEPT ![h] = IdleLocals]
    /\ UNCHANGED <<product, order, db, req, resp, before>>

NextConc ==
    \E h \in Handlers :
        \/ SeedRead(h)
        \/ SeedInsert(h)
        \/ SeedReturn(h)
        \/ SeedDone(h)

SpecConc == InitConc /\ [][NextConc]_vars

----------------------------------------------------------------------------
(* Properties *)

IsPrefix(s, u) == Len(s) <= Len(u) /\ SubSeq(u, 1, Len(s)) = s

WithoutId(d) == Restrict(d, DOMAIN d \ {"_id"})

Last(s) == s[Len(s)]

AlreadySeeded == Ok([status |-> "already-seeded"])

IsSeeded(r) == r.status = 200 /\ "ids" \in DOMAIN r.body

\* The documents the last request appended to the product collection.
AddedProducts == SubSeq(product, Len(before.product) + 1, Len(product))

\* docs are the first Len(docs) samples, each under an identifier.
AreSamples(docs) ==
    /\ Len(docs) <= Len(samples)
    /\ \A i \in 1..Len(docs) :
          "_id" \in DOMAIN docs[i] /\ WithoutId(docs[i]) = samples[i]

\* A failure response carrying a store error message.
IsStoreFailure(r) ==
    /\ r.status = 500
    /\ r.body \in {[detail |-> S(StoreDown)], [detail |-> S(NotAvailable)]}

\* A seed that answered seeded found the collection empty, inserted exactly
\* the 4 samples and answered with count 4 and their 4 identifiers.
SeededExactly ==
    IsSeeded(resp) =>
        /\ before.product = << >>
        /\ Len(product) = 4
        /\ AreSamples(product)
        /\ resp.body.status = "seeded"
        /\ resp.body.count = 4
        /\ resp.body.ids = [i \in 1..4 |-> str(product[i]["_id"])]

\* C1 (as stated): a seed issued while the product collection holds a
\* document returns already-seeded and leaves the collection as it is; a seed
\* that inserts the 4 samples and returns seeded was issued on an empty
\* collection.
C1_AsStated ==
    req.op = "seed_products" =>
        /\ before.product # << >> =>
              (resp = AlreadySeeded /\ product = before.product)
        /\ SeededExactly

\* C1 (amended): a seed issued while the product collection holds a document
\* leaves the collection as it is and returns already-seeded, or a 500
\* failure when its store read fails; only a seed issued on an empty
\* collection inserts anything, and one that returns seeded has inserted
\* exactly the 4 samples and returns their 4 identifiers with count 4.
C1_SeedIdempotent ==
    req.op = "seed_products" =>
        /\ before.product # << >> =>
              /\ product = before.product
              /\ resp = AlreadySeeded \/ IsStoreFailure(resp)
        /\ product # before.product => before.product = << >>
        /\ resp = AlreadySeeded => before.product # << >>
        /\ SeededExactly

\* C1 witness: the collection was seeded, a product was then created, and a
\* further seed answered already-seeded.
C1_Witness ==
    /\ req.op = "seed_products"
    /\ resp = AlreadySeeded
    /\ Len(product) = Len(samples) + 1
    /\ AreSamples(SubSeq(product, 1, Len(samples)))

\* The copies of sample i the product collection holds.
Copies(i) == { j \in 1..Len(product) : WithoutId(product[j]) = samples[i] }

\* C2: with seed requests handled concurrently, the product collection never
\* holds more than one copy of any sample product (no more than 4 seeded
\* rows in total).
C2_NoDuplicateSeed ==
    /\ \A i \in 1..Len(samples) : Cardinality(Copies(i)) <= 1
    /\ Len(product) <= 4

WriteOps == {"create_product", "create_order", "seed_products"}

\* A successful write answers with the identifiers of exactly the documents
\* it added.
WriteSuccess ==
    /\ (req.op = "create_product" /\ resp.status = 200) =>
          /\ order = before.order
          /\ Len(product) = Len(before.product) + 1
          /\ IsPrefix(before.product, product)
          /\ DOMAIN resp.body = {"_id"}
          /\ resp.body["_id"] = str(Last(product)["_id"])
    /\ (req.op = "create_order" /\ resp.status = 200) =>
          /\ product = before.product
          /\ Len(order) = Len(before.order) + 1
          /\ IsPrefix(before.order, order)
          /\ resp.body["_id"] = str(Last(order)["_id"])
    /\ (req.op = "seed_products" /\ resp.status = 200) =>
          /\ order = before.order
          /\ IsPrefix(before.product, product)
          /\ IF IsSeeded(resp)
             THEN resp.body.ids =
                    [i \in 1..Len(AddedProducts) |-> str(AddedProducts[i]["_id"])]
             ELSE product = before.product

\* C3 (as stated): a write request in which a store call fails ends in a 500
\* response carrying the error message and leaves both collections as they
\* were before the request; one that succeeds answers with the identifiers of
\* exactly the documents it added.
C3_AsStated ==
    req.op \in WriteOps =>
        /\ resp.status = 500 =>
              /\ IsStoreFailure(resp)
              /\ product = before.product
              /\ order = before.order
        /\ WriteSuccess

\* C3 (amended): a single-insert write (create product, create order) in
\* which the store call fails ends in a 500 response carrying the error
\* message and leaves both collections as they were; a seed in which a store
\* call fails ends in the same kind of response, leaves the order collection
\* as it was and the product collection extended by the samples inserted
\* ahead of the failing insert (fewer than 4, in sample order); a write that
\* succeeds answers with the identifiers of exactly the documents it added.
C3_NoPartialInsert ==
    req.op \in WriteOps =>
        /\ resp.status = 500 =>
              /\ IsStoreFailure(resp)
              /\ order = before.order
              /\ IF req.op = "seed_products"
                 THEN /\ IsPrefix(before.product, product)
                      /\ Len(AddedProducts) < Len(samples)
                      /\ AreSamples(AddedProducts)
                 ELSE product = before.product
        /\ WriteSuccess

\* C3 witness: a seed failed after inserting two of the samples.
C3_Witness ==
    /\ req.op = "seed_products"
    /\ IsStoreFailure(resp)
    /\ before.product = << >>
    /\ Len(product) = 2
    /\ AreSamples(product)

\* The items of a list response that carry the identifier of document d.
ItemsOf(items, d) ==
    { j \in 1..Len(items) : items[j]["_id"] = str(d["_id"]) }

\* C4: a successful POST /api/products answers with the identifier of the
\* stored product as a non-empty string, and every successful
\* GET /api/products?category=c lists every stored product of category c
\* exactly once, under that same non-empty string identifier.
C4_RoundTrip ==
    /\ (req.op = "create_product" /\ resp.status = 200) =>
          /\ resp.body["_id"].type = "str"
          /\ resp.body["_id"].val # ""
          /\ resp.body["_id"] = str(Last(product)["_id"])
    /\ (req.op = "list_products" /\ resp.status = 200) =>
          \A i \in 1..Len(product) :
              product[i].category = req.category =>
                  /\ Cardinality(ItemsOf(resp.body.items, product[i])) = 1
                  /\ \A j \in ItemsOf(resp.body.items, product[i]) :
                        /\ resp.body.items[j]["_id"].type = "str"
                        /\ resp.body.items[j]["_id"].val # ""
                        /\ WithoutId(resp.body.items[j]) = WithoutId(product[i])

\* C4 witness: a created product of category Audio is listed, among seeded
\* samples of the same category, by GET /api/products?category=Audio.
C4_Witness ==
    /\ req.op = "list_products"
    /\ req.category = S("Audio")
    /\ resp.status = 200
    /\ Len(product) = Len(samples) + 1
    /\ Last(product).title = S("Test")
    /\ Last(product).category = S("Audio")
    /\ Len(resp.body.items) = 3

\* C5: GET /api/orders answers with at most limit orders, at most 50 when no
\* limit is given, whatever the order collection holds; every order it
\* returns has a string as its _id.
C5_ListOrdersCapped ==
    (req.op = "list_orders" /\ resp.status = 200) =>
        /\ Len(resp.body.items) <=
              (IF req.limit = PyNone THEN 50 ELSE req.limit.val)
        /\ \A j \in 1..Len(resp.body.items) :
              resp.body.items[j]["_id"].type = "str"

\* C5 witness: more than 50 orders are stored and a request without limit
\* got 50 of them.
C5_Witness ==
    /\ req.op = "list_orders"
    /\ req.limit = PyNone
    /\ resp.status = 200
    /\ Len(order) > 50
    /\ Len(resp.body.items) = 50

\* The request carries a body that fails its schema: a required field is
\* missing or a field has the wrong type.
InvalidBody(r) ==
    \/ /\ r.op = "create_product"
       /\ \/ \E f \in {"title", "description", "price", "category", "image"} :
                f \notin DOMAIN r.body
          \/ \E f \in DOMAIN r.body \cap {"title", "description", "category", "image"} :
                r.body[f].type # "str"
          \/ "price" \in DOMAIN r.body /\ r.body.price.type # "float"
          \/ "in_stock" \in DOMAIN r.body /\ r.body.in_stock.type # "bool"
    \/ /\ r.op = "create_order"
       /\ ~r.body.complete

\* C6: a write request whose body fails schema validation makes no insert:
\* both collections stay as they were, and the response is a failure that is
\* not a store error and carries no identifier.
C6_InvalidNeverStored ==
    InvalidBody(req) =>
        /\ product = before.product
        /\ order = before.order
        /\ resp.status >= 400
        /\ ~IsStoreFailure(resp)
        /\ "_id" \notin DOMAIN resp.body

\* C6 witness: an order body missing a required field was refused while the
\* collections hold documents.
C6_Witness ==
    /\ req.op = "create_order"
    /\ ~req.body.complete
    /\ resp.status = 422
    /\ Len(order) = 1
    /\ Len(product) = 1

DiagnosticFields ==
    {"backend", "database", "database_url", "database_name",
     "connection_status", "collections"}

\* C7: GET /test never fails: whatever the store handle is (absent, working,
\* raising on list_collection_names) and whatever the environment holds, it
\* answers 200 with the diagnostic object, a store error shows up only as
\* the text of the database field, and no collection changes.
C7_TestNeverFails ==
    req.op = "test_database" =>
        /\ product = before.product
        /\ order = before.order
        /\ resp.status = 200
        /\ DOMAIN resp.body = DiagnosticFields
        /\ resp.body.database.type = "str"
        /\ resp.body.backend = S("Running")
        /\ resp.body.database_url \in {S("Set"), S("Not Set")}
        /\ resp.body.database_name \in {S("Set"), S("Not Set")}
        /\ resp.body.connection_status \in {S("Connected"), S("Not Connected")}
        /\ (db # PyNone /\ req.names.raised) =>
              /\ resp.body.database.val = Take(req.names.exc, 50)
              /\ resp.body.collections = << >>
        /\ (db # PyNone /\ ~req.names.raised) =>
              /\ resp.body.database = S("Connected & Working")
              /\ resp.body.collections = req.names.value
        /\ db = PyNone =>
              /\ resp.body.database = S("Available but not initialized")
              /\ resp.body.collections = << >>

\* C7 witness: the store handle is present, list_collection_names raised a
\* long message and the response carries its first 50 characters.
C7_Witness ==
    /\ req.op = "test_database"
    /\ db # PyNone
    /\ req.names.raised
    /\ Len(req.names.exc) > 50
    /\ resp.status = 200
    /\ Len(resp.body.database.val) = 50
    /\ Len(product) > 0

\* C8: stored documents are append-only: every request keeps each
\* collection's documents, in place and unchanged, and can only add after
\* them; product writes leave the order collection as it is, order writes
\* leave the product collection as it is, and the other requests leave both.
C8_AppendOnly ==
    /\ IsPrefix(before.product, product)
    /\ IsPrefix(before.order, order)
    /\ req.op \in {"create_product", "seed_products"} => order = before.order
    /\ req.op = "create_order" => product = before.product
    /\ req.op \notin WriteOps => (product = before.product /\ order = before.order)

\* C8 witness: an order was added while both collections hold documents.
C8_Witness ==
    /\ req.op = "create_order"
    /\ resp.status = 200
    /\ Len(before.order) = 1
    /\ Len(order) = 2
    /\ Len(product) = 5

\* The products of category c, in store order.
OfCategory(c) == SelectSeq(product, LAMBDA d : d.category = c)

\* C9: GET /api/products with a non-empty category c answers with exactly
\* the stored products whose category equals c; with the parameter absent it
\* answers with the products of every category; an empty category parameter
\* is treated as an absent one.
C9_CategoryFilter ==
    (req.op = "list_products" /\ resp.status = 200) =>
        LET expected == IF req.category = PyNone \/ req.category = S("")
                        THEN product
                        ELSE OfCategory(req.category)
        IN /\ Len(resp.body.items) = Len(expected)
           /\ \A j \in 1..Len(expected) :
                 /\ WithoutId(resp.body.items[j]) = WithoutId(expected[j])
                 /\ resp.body.items[j]["_id"] = str(expected[j]["_id"])

\* C9 witness: the collection holds a product of category "" and one of
\* another category, and GET /api/products?category= listed them all.
C9_Witness ==
    /\ req.op = "list_products"
    /\ req.category = S("")
    /\ resp.status = 200
    /\ \E i, j \in 1..Len(product) :
          product[i].category = S("") /\ product[j].category = S("Audio")
    /\ Len(resp.body.items) = Len(product)
    /\ Len(OfCategory(S(""))) < Len(product)

\* C10: GET /schema answers with the models list, each model's collection
\* being its lowercased schema name, and makes no change to the collections.
C10_SchemaReport ==
    req.op = "get_schema" =>
        /\ product = before.product
        /\ order = before.order
        /\ resp.status = 200
        /\ "models" \in DOMAIN resp.body
        /\ Len(resp.body.models) = Len(SchemaModels)
        /\ resp.body.models[1].name = <<"O", "r", "d", "e", "r">>
        /\ resp.body.models[1].collection = <<"o", "r", "d", "e", "r">>
        /\ resp.body.models[2].name = <<"P", "r", "o", "d", "u", "c", "t">>
        /\ resp.body.models[2].collection = <<"p", "r", "o", "d", "u", "c", "t">>

============================================================================
